---- MODULE Spec2Model ----
(***************************************************************************)
(* Session-window aggregation of claude-usage-monitor.                     *)
(*                                                                         *)
(* The model follows src/src/sessionCalculator.ts (calculateSessionMetrics,*)
(* groupIntoFiveHourSets, calculateBurnRate) and the token helper of       *)
(* sessionParser (calculateTokensFromUsage, src/src/sessionPopover.ts).    *)
(* Timestamps are integers in milliseconds, as Date.getTime() returns      *)
(* them; the epoch is placed at a local midnight, so that local midnights  *)
(* are the multiples of DAY_MS.                                            *)
(***************************************************************************)
EXTENDS Integers, Sequences, FiniteSets, Bags, TLC

VARIABLES
    messages,       \* the batch handed to calculateSessionMetrics
    now,            \* the clock value read by `new Date()` inside the call
    todayMessages,  \* local of calculateSessionMetrics, after the day filter
    sets,           \* local of calculateSessionMetrics: groupIntoFiveHourSets(...)
    result,         \* the value returned: Null or a SessionMetrics record
    pc,             \* "write" while a session file is written, "collect" while
                    \* the batch is built, "done" after the call
    limitArgs,      \* the arguments of a call of estimateTimeToLimit
    timeToLimit,    \* the value that call returned
    lines,          \* the lines of the session file given to parseSessionFile
    linesRead,      \* how many of them the read stream delivered
    clock,          \* the wall clock: new Date() during the parse, or now
    currentSession, \* extension.ts: let currentSession
    statusBar,      \* the status bar item: text, tooltip, backgroundColor
    planConfig,     \* extension.ts: const planConfig
    files,          \* the session files found under the data directory
    cycles,         \* the calls of updateMetrics in flight
    lastOutcome,    \* how the last finished call of updateMetrics ended
    workspaceState, \* the saved claudeMonitor.plan and claudeMonitor.tokenLimit
    planUpdates,    \* the calls of updatePlan in flight
    lastCommand,    \* the plan command run last, with what its input box returned
    panel,          \* SessionHoverPanel.panel
    webviews        \* the webview panels created so far, with their html

calcVars == <<messages, now, todayMessages, sets, result, pc>>
limitVars == <<limitArgs, timeToLimit>>
parseVars == <<lines, linesRead, clock>>
extVars == <<currentSession, statusBar, planConfig>>
pollVars == <<files, cycles, lastOutcome>>
uiVars == <<workspaceState, planUpdates, lastCommand, panel, webviews>>
vars == <<calcVars, limitVars, parseVars, extVars, pollVars, uiVars>>

----------------------------------------------------------------------------
(* Bounds of the model *)

MaxLen == 3

(* Program constants *)

MS_PER_MINUTE == 60 * 1000
SESSION_DURATION_MS == 5 * 60 * 60 * 1000
BURN_RATE_WINDOW_MS == 10 * 60 * 1000
DAY_MS == 24 * 60 * 60 * 1000

(* The inputs the model draws from.  Minutes since the epoch midnight:     *)
(* 22:00 of day 0, then 00:00 (the midnight itself), 05:00 (= 00:00 + 5h)  *)
(* and 05:03 of day 1.                                                     *)
Minutes == {1320, 1440, 1740, 1743}
Times == {m * MS_PER_MINUTE : m \in Minutes}
\* Message ids are opaque strings; IdOrder lists the ones the model uses.
IdOrder == <<"a", "b", "c">>
Ids == {IdOrder[k] : k \in 1..Len(IdOrder)}

NoUsage ==
    [defined |-> FALSE, input_tokens |-> 0, cache_creation_input_tokens |-> 0,
     cache_read_input_tokens |-> 0, output_tokens |-> 0]
Usage(i, cc, cr, o) ==
    [defined |-> TRUE, input_tokens |-> i, cache_creation_input_tokens |-> cc,
     cache_read_input_tokens |-> cr, output_tokens |-> o]
Usages == {NoUsage, Usage(10, 0, 0, 5), Usage(1, 30, 40, 2)}

ClaudeMessage == [id : Ids, timestamp : Times, usage : Usages]

Null == [null |-> TRUE]

----------------------------------------------------------------------------
(* Helpers *)

RECURSIVE GCD(_, _)
GCD(a, b) == IF b = 0 THEN a ELSE GCD(b, a % b)

\* The exact quotient n / d (d > 0, n >= 0) of a floating-point division,
\* kept as a reduced fraction.
Quotient(n, d) ==
    LET g == GCD(n, d) IN [num |-> n \div g, den |-> d \div g]

Zero == [num |-> 0, den |-> 1]

\* Date.setHours(0, 0, 0, 0) on a copy of `t`: the local midnight of t's day.
StartOfDay(t) == t - (t % DAY_MS)

----------------------------------------------------------------------------
(* sessionParser.calculateTokensFromUsage *)

calculateTokensFromUsage(usage) ==
    usage.input_tokens + usage.cache_creation_input_tokens
        + usage.cache_read_input_tokens + usage.output_tokens

----------------------------------------------------------------------------
(* Step 1 of calculateSessionMetrics: new Map(messages.map(m => [m.id, m])) *)
(* A Map keeps its keys in first-insertion order; setting an existing key   *)
(* replaces the value in place.                                             *)

\* Mutation: an id seen again keeps its first message.
MapSetKeepFirst(map, m) ==
    IF \E k \in 1..Len(map) : map[k].id = m.id THEN map ELSE Append(map, m)

\* Mutation: a new id is put in front of the earlier ones.
MapSetInFront(map, m) ==
    IF \E k \in 1..Len(map) : map[k].id = m.id
    THEN [k \in 1..Len(map) |-> IF map[k].id = m.id THEN m ELSE map[k]]
    ELSE <<m>> \o map

MapSet(map, m) ==
    IF \E k \in 1..Len(map) : map[k].id = m.id
    THEN [k \in 1..Len(map) |-> IF map[k].id = m.id THEN m ELSE map[k]]
    ELSE Append(map, m)

RECURSIVE MapOf(_, _)
MapOf(msgs, map) ==
    IF msgs = <<>> THEN map ELSE MapOf(Tail(msgs), MapSet(map, Head(msgs)))

\* Mutation: the deduplication step left out.
KeepAllMessages(msgs) == msgs

UniqueMessages(msgs) == MapOf(msgs, <<>>)

(* Step 2: [...uniqueMessages].sort(by timestamp); Array.prototype.sort is *)
(* stable, so equal timestamps keep their relative order.                  *)

RECURSIVE InsertSorted(_, _)
InsertSorted(sorted, m) ==
    IF sorted = <<>> THEN <<m>>
    ELSE IF Head(sorted).timestamp <= m.timestamp
         THEN <<Head(sorted)>> \o InsertSorted(Tail(sorted), m)
         ELSE <<m>> \o sorted

\* Mutation: the messages are left in the order of the batch.
Unsorted(msgs) == msgs

RECURSIVE SortFrom(_, _)
SortFrom(msgs, sorted) ==
    IF msgs = <<>> THEN sorted
    ELSE SortFrom(Tail(msgs), InsertSorted(sorted, Head(msgs)))

SortedMessages(msgs) == SortFrom(msgs, <<>>)

(* Step 3: filter to the messages of today *)

\* Mutation: the last 24 hours instead of the calendar day.
IsWithinLastDay(msg, n) == msg.timestamp >= n - DAY_MS

IsToday(msg, n) == msg.timestamp >= StartOfDay(n)

TodayMessages(sorted, n) == SelectSeq(sorted, LAMBDA msg : IsToday(msg, n))

----------------------------------------------------------------------------
(* groupIntoFiveHourSets *)

\* Mutation: the set closes a minute early.
NewSetShort(message) ==
    [startTime |-> message.timestamp,
     endTime |-> message.timestamp + SESSION_DURATION_MS - MS_PER_MINUTE,
     lastMessageTime |-> message.timestamp,
     messages |-> <<message>>]

\* Mutation: the set opens before its first message.
NewSetBackdated(message) ==
    [startTime |-> message.timestamp - BURN_RATE_WINDOW_MS,
     endTime |-> message.timestamp + SESSION_DURATION_MS,
     lastMessageTime |-> message.timestamp,
     messages |-> <<message>>]

NewSet(message) ==
    [startTime |-> message.timestamp,
     endTime |-> message.timestamp + SESSION_DURATION_MS,
     lastMessageTime |-> message.timestamp,
     messages |-> <<message>>]

\* Mutation: the closing boundary excluded.
FallsStrictlyWithin(msgTime, currentSet) == msgTime < currentSet.endTime

\* The test of the `else if` branch: the message falls within the current set.
FallsWithin(msgTime, currentSet) == msgTime <= currentSet.endTime

\* One iteration of the for loop.  `closed` is the array `sets`, `current`
\* is <<>> for a null currentSet and <<set>> otherwise.
RECURSIVE GroupFrom(_, _, _)
GroupFrom(msgs, closed, current) ==
    IF msgs = <<>> THEN closed \o current
    ELSE LET message == Head(msgs)
             msgTime == message.timestamp
         IN  IF current = <<>>
             THEN GroupFrom(Tail(msgs), closed, <<NewSet(message)>>)
             ELSE IF FallsWithin(msgTime, current[1])
             THEN GroupFrom(Tail(msgs), closed,
                      <<[current[1] EXCEPT
                            !.messages = Append(@, message),
                            !.lastMessageTime = msgTime]>>)
             ELSE GroupFrom(Tail(msgs), closed \o current, <<NewSet(message)>>)

\* Mutation: the final `sets.push(currentSet)` left out.
groupWithoutLastSet(msgs) ==
    IF Len(msgs) = 0 THEN <<>>
    ELSE LET all == GroupFrom(msgs, <<>>, <<>>) IN SubSeq(all, 1, Len(all) - 1)

groupIntoFiveHourSets(msgs) ==
    IF Len(msgs) = 0 THEN <<>> ELSE GroupFrom(msgs, <<>>, <<>>)

----------------------------------------------------------------------------
(* calculateBurnRate *)

\* Mutation: the guard on elapsedMinutes left out.
calculateBurnRateUnguarded(msgs, n) ==
    LET windowStart == n - BURN_RATE_WINDOW_MS
        recentMessages == SelectSeq(msgs, LAMBDA msg : msg.timestamp >= windowStart)
        Tokens[i \in 0..Len(recentMessages)] ==
            IF i = 0 THEN 0
            ELSE Tokens[i - 1] +
                 (IF recentMessages[i].usage.defined
                  THEN calculateTokensFromUsage(recentMessages[i].usage) ELSE 0)
    IN  IF Len(recentMessages) = 0 THEN Zero
        ELSE [num |-> Tokens[Len(recentMessages)] * MS_PER_MINUTE,
              den |-> n - recentMessages[1].timestamp]

calculateBurnRate(msgs, n) ==
    LET windowStart == n - BURN_RATE_WINDOW_MS
        recentMessages == SelectSeq(msgs, LAMBDA msg : msg.timestamp >= windowStart)
        Tokens[i \in 0..Len(recentMessages)] ==
            IF i = 0 THEN 0
            ELSE Tokens[i - 1] +
                 (IF recentMessages[i].usage.defined
                  THEN calculateTokensFromUsage(recentMessages[i].usage) ELSE 0)
        totalTokens == Tokens[Len(recentMessages)]
    IN  IF Len(recentMessages) = 0 THEN Zero
        ELSE LET earliestTime == recentMessages[1].timestamp
                 elapsedMs == n - earliestTime
             IN  \* elapsedMinutes = elapsedMs / 60000; tokens / elapsedMinutes
                 IF elapsedMs > 0
                 THEN Quotient(totalTokens * MS_PER_MINUTE, elapsedMs)
                 ELSE Zero

----------------------------------------------------------------------------
(* calculateSessionMetrics *)

\* Step 4: the sets that overlap the current time
\* Mutation: the end of the set excluded.
IsOverlappingOpenEnd(set, n) == n >= set.startTime /\ n < set.endTime

\* Mutation: the start of the set not tested.
EndsAfterNow(set, n) == n <= set.endTime

IsOverlapping(set, n) == n >= set.startTime /\ n <= set.endTime

ActiveSets(ss, n) == SelectSeq(ss, LAMBDA set : IsOverlapping(set, n))

\* isActive = timeRemaining > 0
IsActive(timeRemaining) == timeRemaining > 0

\* Mutation: cacheReadTokens fed from cache_creation_input_tokens.
RECURSIVE TokenLoopCacheMixedUp(_, _, _)
TokenLoopCacheMixedUp(msgs, seenIds, acc) ==
    IF msgs = <<>> THEN acc
    ELSE LET message == Head(msgs) IN
         IF ~message.usage.defined THEN TokenLoopCacheMixedUp(Tail(msgs), seenIds, acc)
         ELSE IF message.id \in seenIds
         THEN TokenLoopCacheMixedUp(Tail(msgs), seenIds, acc)
         ELSE TokenLoopCacheMixedUp(Tail(msgs), seenIds \cup {message.id},
                [totalTokens |-> acc.totalTokens + calculateTokensFromUsage(message.usage),
                 inputTokens |-> acc.inputTokens + message.usage.input_tokens,
                 cacheCreationTokens |->
                     acc.cacheCreationTokens + message.usage.cache_creation_input_tokens,
                 cacheReadTokens |->
                     acc.cacheReadTokens + message.usage.cache_creation_input_tokens,
                 outputTokens |-> acc.outputTokens + message.usage.output_tokens])

\* The token loop over activeSet.messages, with its seenIds guard.
RECURSIVE TokenLoop(_, _, _)
TokenLoop(msgs, seenIds, acc) ==
    IF msgs = <<>> THEN acc
    ELSE LET message == Head(msgs) IN
         IF ~message.usage.defined THEN TokenLoop(Tail(msgs), seenIds, acc)
         ELSE IF message.id \in seenIds THEN TokenLoop(Tail(msgs), seenIds, acc)
         ELSE TokenLoop(Tail(msgs), seenIds \cup {message.id},
                [totalTokens |-> acc.totalTokens + calculateTokensFromUsage(message.usage),
                 inputTokens |-> acc.inputTokens + message.usage.input_tokens,
                 cacheCreationTokens |->
                     acc.cacheCreationTokens + message.usage.cache_creation_input_tokens,
                 cacheReadTokens |->
                     acc.cacheReadTokens + message.usage.cache_read_input_tokens,
                 outputTokens |-> acc.outputTokens + message.usage.output_tokens])

NoTokens ==
    [totalTokens |-> 0, inputTokens |-> 0, cacheCreationTokens |-> 0,
     cacheReadTokens |-> 0, outputTokens |-> 0]

Max(a, b) == IF a >= b THEN a ELSE b

MetricsOf(activeSet, n, sessionId) ==
    LET timeRemaining == Max(0, activeSet.endTime - n)
        t == TokenLoop(activeSet.messages, {}, NoTokens)
    IN  [totalTokens |-> t.totalTokens,
         inputTokens |-> t.inputTokens,
         cacheCreationTokens |-> t.cacheCreationTokens,
         cacheReadTokens |-> t.cacheReadTokens,
         outputTokens |-> t.outputTokens,
         messages |-> Len(activeSet.messages),
         startTime |-> activeSet.startTime,
         lastMessageTime |-> activeSet.lastMessageTime,
         sessionId |-> sessionId,
         sessionEndTime |-> activeSet.endTime,
         timeRemaining |-> timeRemaining,
         isActive |-> IsActive(timeRemaining),
         burnRate |-> calculateBurnRate(activeSet.messages, n)]

\* The locals todayMessages and sets of one call (empty when the call
\* returns before computing them).
TodayOf(msgs, n) ==
    IF Len(msgs) = 0 THEN <<>>
    ELSE TodayMessages(SortedMessages(UniqueMessages(msgs)), n)

SetsOf(msgs, n) ==
    IF Len(TodayOf(msgs, n)) = 0 THEN <<>>
    ELSE groupIntoFiveHourSets(TodayOf(msgs, n))

\* Mutation: the metrics taken over all messages, from the first message
\* ever, without day filter and sets.
calculateOverAllMessages(msgs, n, sessionId) ==
    IF Len(msgs) = 0 THEN Null
    ELSE LET sorted == SortedMessages(msgs) IN
         MetricsOf([startTime |-> sorted[1].timestamp,
                    endTime |-> sorted[1].timestamp + SESSION_DURATION_MS,
                    lastMessageTime |-> sorted[Len(sorted)].timestamp,
                    messages |-> sorted], n, sessionId)

calculateSessionMetrics(msgs, n, sessionId) ==
    IF Len(msgs) = 0 THEN Null
    ELSE IF Len(TodayOf(msgs, n)) = 0 THEN Null
    ELSE LET ss == SetsOf(msgs, n)
             activeSets == ActiveSets(ss, n)
         IN  IF Len(ss) = 0 THEN Null
             ELSE IF Len(activeSets) = 0 THEN Null
             ELSE MetricsOf(activeSets[Len(activeSets)], n, sessionId)

----------------------------------------------------------------------------
(* estimateTimeToLimit *)

Undefined == [undefined |-> TRUE]

\* The fraction f times the integer k, reduced.
ScaleBy(f, k) ==
    LET g == GCD(k, f.den) IN [num |-> f.num * (k \div g), den |-> f.den \div g]

\* Mutation: a session exactly at the limit is still projected.
estimateBeyondLimitOnly(currentTokens, tokenLimit, burnRate) ==
    IF burnRate.num <= 0 \/ currentTokens > tokenLimit THEN Undefined
    ELSE ScaleBy(Quotient((tokenLimit - currentTokens) * burnRate.den, burnRate.num),
                 MS_PER_MINUTE)

estimateTimeToLimit(currentTokens, tokenLimit, burnRate) ==
    IF burnRate.num <= 0 \/ currentTokens >= tokenLimit THEN Undefined
    ELSE LET remainingTokens == tokenLimit - currentTokens
             \* remainingTokens / burnRate, burnRate = num / den
             minutesToLimit == Quotient(remainingTokens * burnRate.den, burnRate.num)
         IN  ScaleBy(minutesToLimit, MS_PER_MINUTE)

----------------------------------------------------------------------------
(* parseSessionFile.  A line of the file is blank, or text that JSON.parse *)
(* rejects, or the text of a JSON value; a JSON object is a record that    *)
(* has exactly the fields present in the text.                             *)

Blank == [kind |-> "blank"]
Garbage == [kind |-> "text"]
Json(v) == [kind |-> "json", value |-> v]

Has(r, f) == f \in DOMAIN r

\* Mutation: the fallback wins over the field.
StrOrPreferDefault(r, f, d) == IF d # "" THEN d ELSE IF Has(r, f) THEN r[f] ELSE ""

\* r.f || d, for a string field (the empty string is falsy)
StrOr(r, f, d) == IF Has(r, f) /\ r[f] # "" THEN r[f] ELSE d
\* r.f || 0, for a number field
NumOr(r, f) == IF Has(r, f) THEN r[f] ELSE 0

\* Mutation: a record whose message has no usage is skipped as well.
parseLineWithUsageOnly(line, date) ==
    IF line.kind # "json" THEN <<>>
    ELSE LET parsed == line.value IN
         IF (Has(parsed, "type") /\ parsed.type = "summary") \/ ~Has(parsed, "message")
         THEN <<>>
         ELSE LET msg == parsed.message IN
              IF ~Has(msg, "usage") THEN <<>>
              ELSE << [id        |-> StrOr(msg, "id", StrOr(parsed, "uuid", "")),
                       timestamp |-> IF Has(parsed, "timestamp") THEN parsed.timestamp
                                     ELSE date,
                       usage     |-> Usage(NumOr(msg.usage, "input_tokens"),
                                           NumOr(msg.usage, "cache_creation_input_tokens"),
                                           NumOr(msg.usage, "cache_read_input_tokens"),
                                           NumOr(msg.usage, "output_tokens"))] >>

\* The body of the for-await loop for one line: the messages it pushes.
\* The role field of the message is read by nothing and is left out.
parseLine(line, date) ==
    IF line.kind = "blank" THEN <<>>
    ELSE IF line.kind # "json" THEN <<>>        \* JSON.parse throws: warn, go on
    ELSE LET parsed == line.value IN
         IF (Has(parsed, "type") /\ parsed.type = "summary") \/ ~Has(parsed, "message")
         THEN <<>>
         ELSE LET msg == parsed.message IN
              << [id        |-> StrOr(msg, "id", StrOr(parsed, "uuid", "")),
                  timestamp |-> IF Has(parsed, "timestamp") THEN parsed.timestamp
                                ELSE date,
                  usage     |-> IF Has(msg, "usage")
                                THEN Usage(NumOr(msg.usage, "input_tokens"),
                                           NumOr(msg.usage, "cache_creation_input_tokens"),
                                           NumOr(msg.usage, "cache_read_input_tokens"),
                                           NumOr(msg.usage, "output_tokens"))
                                ELSE NoUsage] >>

RECURSIVE ParseFrom(_, _, _)
ParseFrom(ls, date, acc) ==
    IF ls = <<>> THEN acc
    ELSE ParseFrom(Tail(ls), date, acc \o parseLine(Head(ls), date))

\* Mutation: the first line JSON.parse rejects ends the loop.
RECURSIVE parseUntilBadLine(_, _)
parseUntilBadLine(ls, date) ==
    IF ls = <<>> \/ Head(ls).kind = "text" THEN <<>>
    ELSE parseLine(Head(ls), date) \o parseUntilBadLine(Tail(ls), date)

\* ls: the lines the stream delivers (all of them unless the read fails)
parseSessionFile(ls, date) == ParseFrom(ls, date, <<>>)

----------------------------------------------------------------------------
(* The state machine: a batch is collected message by message, then        *)
(* calculateSessionMetrics is called on it once, reading the clock.        *)

\* estimateTimeToLimit has not been called.
NoArgs == [currentTokens |-> 0, tokenLimit |-> 0, burnRate |-> Zero]
NotEstimated == [estimated |-> FALSE]

----------------------------------------------------------------------------
(* The extension (activate): status bar, plan, polling cycles, panel.     *)

MaxCycles == 2
MaxFileLen == 1

FileOrder == <<"f1", "f2">>
FileNames == {FileOrder[k] : k \in 1..Len(FileOrder)}

\* formatTimeRemaining: "<hours>h <minutes>m", or "<minutes>m"
formatTimeRemaining(ms) ==
    LET totalMinutes == ms \div MS_PER_MINUTE
        hours == totalMinutes \div 60
        minutes == totalMinutes % 60
    IN  IF hours > 0 THEN [hours |-> hours, minutes |-> minutes]
        ELSE [minutes |-> minutes]

\* x.toFixed(1) of the fraction x >= 0, in tenths
ToFixed1(x) == (2 * 10 * x.num + x.den) \div (2 * x.den)
\* Math.round(x) of the fraction x >= 0
Round(x) == (2 * x.num + x.den) \div (2 * x.den)

Initializing ==
    [text |-> [label |-> "Initializing..."],
     tooltip |-> [label |-> "Claude Usage Monitor starting up..."],
     backgroundColor |-> "undefined"]

NoSessionBar ==
    [text |-> [label |-> "No Session"],
     tooltip |-> [label |-> "No active Claude session"],
     backgroundColor |-> "undefined"]

\* StatusBarManager.update(session, planConfig)
StatusBarOf(session, config) ==
    IF session = Null THEN NoSessionBar
    ELSE LET usagePercent == Quotient(session.totalTokens * 100, config.tokenLimit)
             timeRemaining == IF session.isActive
                              THEN formatTimeRemaining(session.timeRemaining)
                              ELSE [label |-> "Expired"]
             burnRate == Round(session.burnRate)
         IN  [text |-> [timeRemaining |-> timeRemaining,
                        usagePercent |-> ToFixed1(usagePercent)],
              tooltip |-> [tokens |-> session.totalTokens,
                           tokenLimit |-> config.tokenLimit,
                           usagePercent |-> ToFixed1(usagePercent),
                           timeRemaining |-> timeRemaining,
                           burnRate |-> burnRate,
                           started |-> session.startTime,
                           ends |-> session.sessionEndTime],
              backgroundColor |->
                  IF usagePercent.num >= 80 * usagePercent.den
                  THEN IF usagePercent.num >= 100 * usagePercent.den
                       THEN "statusBarItem.errorBackground"
                       ELSE "statusBarItem.warningBackground"
                  ELSE "undefined"]

DefaultPlan == [plan |-> "pro", tokenLimit |-> 44000]

\* A call of updateMetrics in flight: next is the position in FileOrder of
\* the file whose parseSessionFile is awaited, batch is allMessages.  The
\* calls in flight are a bag of such records.
Started == [next |-> 1, batch |-> <<>>]
\* this.panel is the position in webviews of its panel, or undefined
NoPanel == 0
NoInput == [none |-> TRUE]
NoCommand == [command |-> "none", input |-> NoInput]

InitExt ==
    /\ currentSession = Null
    /\ statusBar = Initializing
    /\ planConfig = DefaultPlan

InitPoll ==
    /\ files = [f \in FileNames |-> <<>>]
    /\ cycles = EmptyBag
    /\ lastOutcome = "none"

InitUi ==
    /\ workspaceState = DefaultPlan
    /\ planUpdates = EmptyBag
    /\ lastCommand = NoCommand
    /\ panel = NoPanel
    /\ webviews = <<>>

InitCalc ==
    /\ messages = <<>>
    /\ now = 0
    /\ todayMessages = <<>>
    /\ sets = <<>>
    /\ result = Null
    /\ pc = "collect"

InitLimit ==
    /\ limitArgs = NoArgs
    /\ timeToLimit = NotEstimated

\* No session file has been parsed.
InitFile ==
    /\ lines = <<>>
    /\ linesRead = 0
    /\ clock = 0

Init == InitCalc /\ InitLimit /\ InitFile /\ InitExt /\ InitPoll /\ InitUi

\* The ids a next message may carry: an id already in the batch, or the
\* first id of IdOrder not yet in it.  Nothing in the program depends on
\* which string an id is, only on which ids are equal, so every batch is
\* one of these up to a renaming of its ids.
IdsInBatch == {messages[i].id : i \in 1..Len(messages)}
NextIds == {IdOrder[k] : k \in 1..Len(IdOrder)} \cap
           (IdsInBatch \cup {IdOrder[k] : k \in {Cardinality(IdsInBatch) + 1} \cap 1..Len(IdOrder)})

\* allMessages.push(...) of the polling cycle: one more message in the batch
Collect(m) ==
    /\ pc = "collect"
    /\ Len(messages) < MaxLen
    /\ m.id \in NextIds
    /\ messages' = Append(messages, m)
    /\ UNCHANGED <<now, todayMessages, sets, result, pc>>
    /\ UNCHANGED <<limitVars, parseVars, extVars, pollVars, uiVars>>

\* calculateSessionMetrics(justMessages, 'combined'), the clock reading n
Calculate(n) ==
    /\ pc = "collect"
    /\ now' = n
    /\ todayMessages' = TodayOf(messages, n)
    /\ sets' = SetsOf(messages, n)
    /\ result' = calculateSessionMetrics(messages, n, "combined")
    /\ pc' = "done"
    /\ UNCHANGED messages
    /\ UNCHANGED <<limitVars, parseVars, extVars, pollVars, uiVars>>

Next ==
    \/ \E m \in ClaudeMessage : Collect(m)
    \/ \E n \in Times : Calculate(n)

Spec == Init /\ [][Next]_vars

----------------------------------------------------------------------------
(* One session file is written line by line, parsed, and its messages are  *)
(* the batch of the calculation.                                            *)

MaxLines == 2

FileTime == 1740 * MS_PER_MINUTE
ClockTimes == {1740 * MS_PER_MINUTE, 1743 * MS_PER_MINUTE}

RawUsages ==
    {[input_tokens |-> 10, cache_creation_input_tokens |-> 0,
      cache_read_input_tokens |-> 0, output_tokens |-> 5],
     [output_tokens |-> 2]}
RawMessages ==
    {[role |-> "assistant"]}
        \cup {[role |-> "assistant", usage |-> u] : u \in RawUsages}
        \cup {[role |-> "assistant", id |-> i] : i \in {"a", "b"}}
        \cup {[role |-> "assistant", id |-> i, usage |-> u] : i \in {"a", "b"}, u \in RawUsages}
AllMessageRecords ==
    {[type |-> "assistant", message |-> m] : m \in RawMessages}
        \cup {[type |-> "assistant", message |-> m, uuid |-> x] :
                    m \in RawMessages, x \in {"u", "v"}}
        \cup {[type |-> "assistant", message |-> m, timestamp |-> FileTime] :
                    m \in RawMessages}
        \cup {[type |-> "assistant", message |-> m, uuid |-> x, timestamp |-> FileTime] :
                    m \in RawMessages, x \in {"u", "v"}}
\* The combinations the model draws from.
MessageRecords ==
    {r \in AllMessageRecords :
        /\ Has(r, "timestamp") \/ Has(r.message, "usage")
        /\ (Has(r.message, "id") /\ r.message.id = "b")
              => (Has(r, "uuid") /\ r.uuid = "u")}
\* A message whose id is the empty string.
EmptyIdRecords ==
    {[type |-> "assistant", uuid |-> "u", timestamp |-> FileTime,
      message |-> [role |-> "assistant", id |-> ""]]}
OtherRecords ==
    {[type |-> "summary", uuid |-> "u"],
     [type |-> "summary", uuid |-> "u", timestamp |-> FileTime,
      message |-> [role |-> "assistant", id |-> "a"]],
     [type |-> "user", uuid |-> "u", timestamp |-> FileTime]}
Lines ==
    {Blank, Garbage}
        \cup {Json(v) : v \in MessageRecords \cup EmptyIdRecords \cup OtherRecords}

InitParse ==
    /\ InitLimit
    /\ InitFile
    /\ InitExt
    /\ InitPoll
    /\ InitUi
    /\ messages = <<>>
    /\ now = 0
    /\ todayMessages = <<>>
    /\ sets = <<>>
    /\ result = Null
    /\ pc = "write"

WriteLine(line) ==
    /\ pc = "write"
    /\ Len(lines) < MaxLines
    /\ lines' = Append(lines, line)
    /\ UNCHANGED <<messages, now, todayMessages, sets, result, pc, linesRead, clock>>
    /\ UNCHANGED <<limitVars, extVars, pollVars, uiVars>>

\* parseSessionFile(filePath) at time date; the stream delivers n lines
\* (fewer than the file has when reading fails, which ends the loop).
ParseFile(n, date) ==
    /\ pc = "write"
    /\ n \in 0..Len(lines)
    /\ linesRead' = n
    /\ clock' = date
    /\ messages' = parseSessionFile(SubSeq(lines, 1, n), date)
    /\ pc' = "collect"
    /\ UNCHANGED <<now, todayMessages, sets, result, lines>>
    /\ UNCHANGED <<limitVars, extVars, pollVars, uiVars>>

\* The calculation follows the parse: its now is not before the parse's.
CalculateParsed(n) ==
    /\ n >= clock
    /\ Calculate(n)

NextParse ==
    \/ \E line \in Lines : WriteLine(line)
    \/ \E n \in 0..MaxLines, date \in ClockTimes : ParseFile(n, date)
    \/ \E n \in Times : CalculateParsed(n)

SpecParse == InitParse /\ [][NextParse]_vars

----------------------------------------------------------------------------
(* Polling: updateMetrics runs at activation and every 5 seconds.  It is   *)
(* async and yields at each `await parseSessionFile`, so calls may overlap;*)
(* the code between two awaits runs without interruption.  The data        *)
(* directory holds two projects with one session file each.                *)

PollTimes == {1440 * MS_PER_MINUTE, 1740 * MS_PER_MINUTE, 1743 * MS_PER_MINUTE}

IdOf(f) == IF f = "f1" THEN "a" ELSE "b"

InitPolling ==
    /\ InitCalc
    /\ InitLimit
    /\ InitExt
    /\ InitPoll
    /\ InitUi
    /\ lines = <<>>
    /\ linesRead = 0
    /\ clock = 1440 * MS_PER_MINUTE

\* Time passes.
Tick(t) ==
    /\ t \in PollTimes
    /\ t > clock
    /\ \A u \in PollTimes : u > clock => t <= u
    /\ clock' = t
    /\ UNCHANGED <<calcVars, limitVars, lines, linesRead, extVars, pollVars, uiVars>>

\* Claude Code appends a message to a session file.
MessageWritten(f) ==
    /\ Len(files[f]) < MaxFileLen
    /\ files' = [files EXCEPT ![f] =
                    Append(@, [id |-> IdOf(f), timestamp |-> clock,
                               usage |-> Usage(10, 0, 0, 5)])]
    /\ UNCHANGED <<calcVars, limitVars, parseVars, extVars, cycles, lastOutcome, uiVars>>

\* Mutation: a file that fails to parse empties the batch.
PushedOrLost(batch, content, n) ==
    IF n = Len(content) THEN batch \o content ELSE <<>>

\* allMessages after one file: parseSessionFile returns what it parsed of
\* the n lines the stream delivered (all of them unless reading fails).
Pushed(batch, content, n) == batch \o SubSeq(content, 1, n)

\* Mutation: metrics are kept whether active or not.
SessionOfAnyMetrics(metrics) == metrics

\* if (metrics && metrics.isActive) currentSession = metrics; else null
SessionOf(metrics) ==
    IF metrics # Null /\ metrics.isActive THEN metrics ELSE Null

\* Mutation: now is the time of the newest message collected.
NewestMessageTime(batch) ==
    IF batch = <<>> THEN clock ELSE batch[Len(batch)].timestamp

\* new Date() in calculateSessionMetrics, called with batch
ReadClock(batch) == clock

\* The timer fires (or activation calls updateMetrics): the base directory
\* and the first project are listed; listOk is FALSE when that throws,
\* which the outer catch logs.
TimerFires(listOk) ==
    /\ BagCardinality(cycles) < MaxCycles
    /\ IF listOk
       THEN /\ cycles' = cycles (+) SetToBag({Started})
            /\ UNCHANGED lastOutcome
       ELSE /\ lastOutcome' = "aborted"
            /\ UNCHANGED cycles
    /\ UNCHANGED <<calcVars, limitVars, parseVars, extVars, files, uiVars>>

\* parseSessionFile of a file that is not the last one returns to the call
\* c; its messages are pushed and the next project is listed.
FileRead(c, n, listOk) ==
    LET k == c.next IN
    /\ BagIn(c, cycles)
    /\ k < Len(FileOrder)
    /\ n \in 0..Len(files[FileOrder[k]])
    /\ IF listOk
       THEN /\ cycles' = (cycles (-) SetToBag({c})) (+)
                            SetToBag({[next |-> k + 1,
                                       batch |-> Pushed(c.batch, files[FileOrder[k]], n)]})
            /\ UNCHANGED lastOutcome
       ELSE /\ cycles' = cycles (-) SetToBag({c})
            /\ lastOutcome' = "aborted"
    /\ UNCHANGED <<calcVars, limitVars, parseVars, extVars, files, uiVars>>

\* parseSessionFile of the last file returns to the call c: the rest of
\* updateMetrics runs to its end.
LastFileRead(c, n) ==
    LET k == c.next
        allMessages == Pushed(c.batch, files[FileOrder[k]], n)
    IN
    /\ BagIn(c, cycles)
    /\ k = Len(FileOrder)
    /\ n \in 0..Len(files[FileOrder[k]])
    /\ cycles' = cycles (-) SetToBag({c})
    /\ lastOutcome' = "completed"
    /\ messages' = allMessages
    /\ IF Len(allMessages) = 0
       THEN /\ currentSession' = Null
            /\ statusBar' = StatusBarOf(Null, planConfig)
            /\ UNCHANGED <<now, todayMessages, sets, result>>
       ELSE LET date == ReadClock(allMessages)
                metrics == calculateSessionMetrics(allMessages, date, "combined")
            IN  /\ now' = date
                /\ todayMessages' = TodayOf(allMessages, date)
                /\ sets' = SetsOf(allMessages, date)
                /\ result' = metrics
                /\ currentSession' = SessionOf(metrics)
                /\ statusBar' = StatusBarOf(SessionOf(metrics), planConfig)
    /\ UNCHANGED <<pc, limitVars, parseVars, planConfig, files, uiVars>>

NextPolling ==
    \/ \E t \in PollTimes : Tick(t)
    \/ \E f \in FileNames : MessageWritten(f)
    \/ \E listOk \in BOOLEAN : TimerFires(listOk)
    \/ \E c \in BagToSet(cycles), n \in 0..MaxFileLen, listOk \in BOOLEAN :
            FileRead(c, n, listOk)
    \/ \E c \in BagToSet(cycles), n \in 0..MaxFileLen : LastFileRead(c, n)

SpecPolling == InitPolling /\ [][NextPolling]_vars

----------------------------------------------------------------------------
(* The plan commands: setPlanPro, setPlanMax5, setPlanMax20 and            *)
(* setPlanCustom call updatePlan, which assigns planConfig at once and     *)
(* then awaits the two workspaceState updates before it refreshes the      *)
(* status bar.  Strings typed into the input box are sequences of          *)
(* characters.                                                             *)

MaxUpdates == 2

Digits == <<"0", "1", "2", "3", "4", "5", "6", "7", "8", "9">>
IsDigit(ch) == \E d \in 1..Len(Digits) : Digits[d] = ch
DigitValue(ch) == (CHOOSE d \in 1..Len(Digits) : Digits[d] = ch) - 1

\* The digits at the head of chars; nan when there is none.
RECURSIVE LeadingDigits(_, _, _)
LeadingDigits(chars, acc, any) ==
    IF chars = <<>> \/ ~IsDigit(Head(chars)) THEN [nan |-> ~any, value |-> acc]
    ELSE LeadingDigits(Tail(chars), acc * 10 + DigitValue(Head(chars)), TRUE)

\* parseInt(value): leading blanks, an optional sign, then decimal digits;
\* what follows the digits is ignored.
RECURSIVE parseInt(_)
parseInt(chars) ==
    IF chars # <<>> /\ Head(chars) = " " THEN parseInt(Tail(chars))
    ELSE IF chars # <<>> /\ Head(chars) = "-"
    THEN LET n == LeadingDigits(Tail(chars), 0, FALSE)
         IN  [nan |-> n.nan, value |-> 0 - n.value]
    ELSE IF chars # <<>> /\ Head(chars) = "+" THEN LeadingDigits(Tail(chars), 0, FALSE)
    ELSE LeadingDigits(chars, 0, FALSE)

\* validateInput of the input box: the message, or "null" for a valid value
validateInput(value) ==
    LET num == parseInt(value) IN
    IF num.nan \/ num.value <= 0 THEN "Please enter a valid positive number"
    ELSE "null"

TypedInputs ==
    {<<>>, <<"0">>, <<"a", "b", "c">>, <<"-", "5">>, <<"1", "2", "a">>,
     <<" ", "7">>, <<"1", "0", "0", "0", "0", "0">>}

\* What showInputBox resolves to: undefined when cancelled, else a string
\* that validateInput accepts, or the empty string.
Cancelled == [cancelled |-> TRUE]
InputBoxResults ==
    {Cancelled} \cup
    {[value |-> v] : v \in {t \in TypedInputs : validateInput(t) = "null"} \cup {<<>>}}

\* Mutation: only a cancelled box is ignored.
NotCancelled(input) == input # Cancelled

\* if (input)
Truthy(input) == input # Cancelled /\ input.value # <<>>

PlanLimits == [pro |-> 44000, max5 |-> 88000, max20 |-> 220000]
PlanCommands ==
    [pro |-> "setPlanPro", max5 |-> "setPlanMax5", max20 |-> "setPlanMax20"]

\* A message at 05:00 and the metrics two polls made of it.
SampleMessage ==
    [id |-> "a", timestamp |-> 1740 * MS_PER_MINUTE, usage |-> Usage(200, 0, 0, 100)]
SampleSessions ==
    {Null} \cup {calculateSessionMetrics(<<SampleMessage>>, t, "combined") :
                    t \in {1740 * MS_PER_MINUTE, 1743 * MS_PER_MINUTE}}

\* What activate finds saved: nothing, or what an earlier updatePlan saved.
SavedPlans ==
    {DefaultPlan, [plan |-> "max5", tokenLimit |-> 88000],
     [plan |-> "custom", tokenLimit |-> 100000]}

InitPlan ==
    /\ InitCalc
    /\ InitLimit
    /\ InitFile
    /\ InitPoll
    /\ workspaceState \in SavedPlans
    /\ planConfig = workspaceState
    /\ currentSession = Null
    /\ statusBar = Initializing
    /\ planUpdates = EmptyBag
    /\ lastCommand = NoCommand
    /\ panel = NoPanel
    /\ webviews = <<>>

\* A polling cycle completes with the session s.
CycleCompletes(s) ==
    /\ currentSession' = s
    /\ statusBar' = StatusBarOf(s, planConfig)
    /\ UNCHANGED <<calcVars, limitVars, parseVars, planConfig, pollVars, uiVars>>

\* updatePlan(plan, tokenLimit) up to its first await
updatePlan(plan, tokenLimit) ==
    /\ planConfig' = [plan |-> plan, tokenLimit |-> tokenLimit]
    /\ planUpdates' = planUpdates (+)
                          SetToBag({[plan |-> plan, tokenLimit |-> tokenLimit,
                                     saved |-> 0]})

\* claude-usage-monitor.setPlanPro / setPlanMax5 / setPlanMax20
PlanCommand(plan) ==
    /\ BagCardinality(planUpdates) < MaxUpdates
    /\ updatePlan(plan, PlanLimits[plan])
    /\ lastCommand' = [command |-> PlanCommands[plan], input |-> NoInput]
    /\ UNCHANGED <<calcVars, limitVars, parseVars, currentSession, statusBar,
                   pollVars, workspaceState, panel, webviews>>

\* claude-usage-monitor.setPlanCustom, from the moment the input box resolves
CustomCommand(input) ==
    /\ BagCardinality(planUpdates) < MaxUpdates
    /\ lastCommand' = [command |-> "setPlanCustom", input |-> input]
    /\ IF Truthy(input)
       THEN updatePlan("custom", parseInt(input.value).value)
       ELSE UNCHANGED <<planConfig, planUpdates>>
    /\ UNCHANGED <<calcVars, limitVars, parseVars, currentSession, statusBar,
                   pollVars, workspaceState, panel, webviews>>

\* await context.workspaceState.update('claudeMonitor.plan', plan) returns
PlanSaved(u) ==
    /\ BagIn(u, planUpdates)
    /\ u.saved = 0
    /\ workspaceState' = [workspaceState EXCEPT !.plan = u.plan]
    /\ planUpdates' = (planUpdates (-) SetToBag({u})) (+)
                          SetToBag({[u EXCEPT !.saved = 1]})
    /\ UNCHANGED <<calcVars, limitVars, parseVars, extVars, pollVars,
                   lastCommand, panel, webviews>>

\* await context.workspaceState.update('claudeMonitor.tokenLimit', ...)
\* returns; the status bar is refreshed and updatePlan ends.
LimitSaved(u) ==
    /\ BagIn(u, planUpdates)
    /\ u.saved = 1
    /\ workspaceState' = [workspaceState EXCEPT !.tokenLimit = u.tokenLimit]
    /\ planUpdates' = planUpdates (-) SetToBag({u})
    /\ statusBar' = StatusBarOf(currentSession, planConfig)
    /\ UNCHANGED <<calcVars, limitVars, parseVars, currentSession, planConfig,
                   pollVars, lastCommand, panel, webviews>>

NextPlan ==
    \/ \E s \in SampleSessions : CycleCompletes(s)
    \/ \E plan \in DOMAIN PlanLimits : PlanCommand(plan)
    \/ \E input \in InputBoxResults : CustomCommand(input)
    \/ \E u \in BagToSet(planUpdates) : PlanSaved(u)
    \/ \E u \in BagToSet(planUpdates) : LimitSaved(u)

SpecPlan == InitPlan /\ [][NextPlan]_vars

----------------------------------------------------------------------------
(* The detail panel: the showPopup command calls                           *)
(* hoverPanel.show(currentSession, planConfig).                            *)

MaxPanels == 2

\* getStatusColor
getStatusColor(usagePercent) ==
    IF usagePercent.num >= 80 * usagePercent.den THEN "#ff6b6b"
    ELSE IF usagePercent.num >= 60 * usagePercent.den THEN "#ffd93d"
    ELSE "#51cf66"

NoSessionHtml == [body |-> "No Session"]

\* getHtmlContent(session, planConfig): the values the page is made of
getHtmlContent(session, config) ==
    IF session = Null THEN NoSessionHtml
    ELSE LET usagePercent == Quotient(session.totalTokens * 100, config.tokenLimit)
             limitTime == estimateTimeToLimit(session.totalTokens, config.tokenLimit,
                                              session.burnRate)
         IN  [statusColor |-> getStatusColor(usagePercent),
              badge |-> IF session.isActive THEN "Active" ELSE "Expired",
              started |-> session.startTime,
              ends |-> session.sessionEndTime,
              timeRemaining |-> IF session.isActive
                                THEN formatTimeRemaining(session.timeRemaining)
                                ELSE [label |-> "Expired"],
              tokens |-> session.totalTokens,
              tokenLimit |-> config.tokenLimit,
              barWidth |-> IF usagePercent.num >= 100 * usagePercent.den
                           THEN [num |-> 100, den |-> 1] ELSE usagePercent,
              usagePercent |-> ToFixed1(usagePercent),
              inputTokens |-> session.inputTokens,
              outputTokens |-> session.outputTokens,
              cacheCreationTokens |-> session.cacheCreationTokens,
              cacheReadTokens |-> session.cacheReadTokens,
              burnRate |-> Round(session.burnRate),
              timeToLimit |-> IF limitTime = Undefined THEN [label |-> "none"]
                              ELSE formatTimeRemaining(limitTime.num \div limitTime.den),
              warning |-> IF usagePercent.num >= 100 * usagePercent.den THEN "error"
                          ELSE IF usagePercent.num >= 80 * usagePercent.den
                          THEN "warning" ELSE "none",
              plan |-> config.plan]

InitPanel ==
    /\ InitCalc
    /\ InitLimit
    /\ InitFile
    /\ InitPoll
    /\ workspaceState \in SavedPlans
    /\ planConfig = workspaceState
    /\ currentSession = Null
    /\ statusBar = Initializing
    /\ planUpdates = EmptyBag
    /\ lastCommand = NoCommand
    /\ panel = NoPanel
    /\ webviews = <<>>

\* Mutation: the dispose event is not listened to.
onDidDisposeIgnored(p) == p

\* this.panel.onDidDispose(() => { this.panel = undefined; })
onDidDispose(p) == NoPanel

\* SessionHoverPanel.show(currentSession, planConfig)
Show ==
    LET html == getHtmlContent(currentSession, planConfig) IN
    /\ lastCommand' = [command |-> "showPopup",
                       input |-> [session |-> currentSession, config |-> planConfig]]
    /\ IF panel # NoPanel
       THEN /\ webviews' = [webviews EXCEPT ![panel].html = html]
            /\ UNCHANGED panel
       ELSE /\ Len(webviews) < MaxPanels
            /\ webviews' = Append(webviews, [html |-> html, disposed |-> FALSE])
            /\ panel' = Len(webviews) + 1
    /\ UNCHANGED <<calcVars, limitVars, parseVars, extVars, pollVars,
                   workspaceState, planUpdates>>

\* The panel i is closed, by the user or by dispose(): it is disposed and
\* its dispose event is delivered.
PanelClosed(i) ==
    /\ i \in 1..Len(webviews)
    /\ ~webviews[i].disposed
    /\ webviews' = [webviews EXCEPT ![i].disposed = TRUE]
    /\ panel' = IF panel = i THEN onDidDispose(panel) ELSE panel
    /\ UNCHANGED <<calcVars, limitVars, parseVars, extVars, pollVars,
                   workspaceState, planUpdates, lastCommand>>

NextPanel ==
    \/ \E s \in SampleSessions : CycleCompletes(s)
    \/ Show
    \/ \E i \in 1..MaxPanels : PanelClosed(i)

SpecPanel == InitPanel /\ [][NextPanel]_vars

----------------------------------------------------------------------------
(* The detail panel's call of estimateTimeToLimit(session.totalTokens,     *)
(* planConfig.tokenLimit, session.burnRate), on inputs drawn from:         *)

TokenCounts == {0, 15, 100, 43985, 44000, 44073}
TokenLimits == {100, 44000, 88000}
BurnRates == {[num |-> 0 - 5, den |-> 1], Zero, [num |-> 5, den |-> 1],
              [num |-> 15, den |-> 2], [num |-> 100, den |-> 1]}

InitEstimate ==
    /\ InitCalc
    /\ InitFile
    /\ InitExt
    /\ InitPoll
    /\ InitUi
    /\ limitArgs \in [currentTokens : TokenCounts, tokenLimit : TokenLimits,
                       burnRate : BurnRates]
    /\ timeToLimit = NotEstimated

Estimate ==
    /\ timeToLimit = NotEstimated
    /\ timeToLimit' = estimateTimeToLimit(limitArgs.currentTokens,
                                          limitArgs.tokenLimit, limitArgs.burnRate)
    /\ UNCHANGED <<limitArgs, calcVars, parseVars, extVars, pollVars, uiVars>>

NextEstimate == Estimate

SpecEstimate == InitEstimate /\ [][NextEstimate]_vars

----------------------------------------------------------------------------
(* Definitions shared by the properties below *)

Done == pc = "done"

HasMetrics == Done /\ result # Null

\* Same-id messages of the batch are identical copies.
CopiesIdentical(msgs) ==
    \A i, j \in 1..Len(msgs) : msgs[i].id = msgs[j].id => msgs[i] = msgs[j]

\* The batch with one copy of each message: later repeats removed.
OneCopy(msgs) ==
    LET Keep[i \in 0..Len(msgs)] ==
            IF i = 0 THEN <<>>
            ELSE IF \E j \in 1..(i - 1) : msgs[j] = msgs[i]
                 THEN Keep[i - 1]
                 ELSE Append(Keep[i - 1], msgs[i])
    IN  Keep[Len(msgs)]

\* The messages of all sets, in order.
AllSetMessages(ss) ==
    LET Cat[k \in 0..Len(ss)] ==
            IF k = 0 THEN <<>> ELSE Cat[k - 1] \o ss[k].messages
    IN  Cat[Len(ss)]

\* Position in todayMessages of the first message of set k.
FirstPos(ss, k) == Len(AllSetMessages(SubSeq(ss, 1, k - 1))) + 1

\* The set that holds position i of todayMessages.
SetAt(ss, i) ==
    CHOOSE k \in 1..Len(ss) :
        FirstPos(ss, k) <= i /\ i < FirstPos(ss, k) + Len(ss[k].messages)

----------------------------------------------------------------------------
(* C1: whenever calculateSessionMetrics returns metrics, totalTokens equals *)
(* inputTokens + outputTokens, whatever the cache token counts are.         *)
(* The code adds the cache counts to totalTokens, so this does not hold.    *)

C1_TotalIsInputPlusOutput ==
    HasMetrics => result.totalTokens = result.inputTokens + result.outputTokens

----------------------------------------------------------------------------
(* C2: on a batch whose same-id messages are identical copies, the metrics  *)
(* returned are those of the batch with one copy of each message, wherever  *)
(* the copies stand; n copies of one message count as one message with its  *)
(* tokens counted once.                                                     *)

C2_CopiesChangeNothing ==
    (Done /\ CopiesIdentical(messages)) =>
        result = calculateSessionMetrics(OneCopy(messages), now, "combined")

C2_Witness ==
    /\ HasMetrics
    /\ Len(messages) = MaxLen
    /\ \A i \in 1..Len(messages) : messages[i] = messages[1]
    /\ messages[1].usage.input_tokens > 0
    /\ result.messages = 1
    /\ result.inputTokens = messages[1].usage.input_tokens
    /\ result.outputTokens = messages[1].usage.output_tokens

----------------------------------------------------------------------------
(* C3: the sets produced from the sorted messages of today partition them:  *)
(* the sets' messages, set after set, are exactly the input, each set       *)
(* starts strictly after the previous set's start, and strictly after the   *)
(* previous set's endTime, so the closed intervals are disjoint.            *)

C3_SetsPartition ==
    Done =>
        /\ AllSetMessages(sets) = todayMessages
        /\ \A k \in 1..Len(sets) : Len(sets[k].messages) > 0
        /\ \A k \in 1..(Len(sets) - 1) :
              /\ sets[k].startTime < sets[k + 1].startTime
              /\ sets[k].endTime < sets[k + 1].startTime

C3_Witness ==
    Done /\ Len(sets) = 2 /\ Len(todayMessages) = 3

----------------------------------------------------------------------------
(* C4: in the fold, a message opens a new set exactly when its timestamp is *)
(* strictly greater than the endTime of the set current at that point       *)
(* (that set's first timestamp + 5 hours); a message whose timestamp equals *)
(* that endTime is appended to the current set.                             *)

C4_NewSetIffBeyondEnd ==
    Done =>
        /\ \A k \in 1..Len(sets) :
              sets[k].endTime = sets[k].messages[1].timestamp + SESSION_DURATION_MS
        /\ \A i \in 2..Len(todayMessages) :
              LET cur == sets[SetAt(sets, i - 1)]
                  opens == \E k \in 1..Len(sets) : FirstPos(sets, k) = i
              IN  /\ opens <=> todayMessages[i].timestamp > cur.endTime
                  /\ todayMessages[i].timestamp = cur.endTime =>
                         SetAt(sets, i) = SetAt(sets, i - 1)

C4_Witness ==
    /\ Done
    /\ Len(sets) = 2
    /\ \E j \in 2..Len(sets[1].messages) :
          sets[1].messages[j].timestamp = sets[1].endTime

----------------------------------------------------------------------------
(* C5: calculateSessionMetrics returns metrics exactly when some set built  *)
(* from today's deduplicated messages has startTime <= now <= endTime, both *)
(* ends included; the metrics are those of the last such set; an empty      *)
(* batch and a batch with no message of today give null.                    *)

Containing == {k \in 1..Len(sets) : sets[k].startTime <= now /\ now <= sets[k].endTime}

LastOf(S) == CHOOSE k \in S : \A l \in S : l <= k

C5_MetricsIffContainingSet ==
    Done =>
        /\ sets = groupIntoFiveHourSets(todayMessages)
        /\ (result # Null) <=> (Containing # {})
        /\ Containing # {} =>
              LET set == sets[LastOf(Containing)] IN
              /\ result.startTime = set.startTime
              /\ result.sessionEndTime = set.endTime
              /\ result.lastMessageTime = set.lastMessageTime
              /\ result.messages = Len(set.messages)
        /\ messages = <<>> => result = Null
        /\ (\A i \in 1..Len(messages) : messages[i].timestamp < StartOfDay(now))
              => result = Null

C5_Witness ==
    HasMetrics /\ Len(sets) = 2 /\ now = result.sessionEndTime

----------------------------------------------------------------------------
(* C6: no message from before the local midnight of now's day reaches the   *)
(* result: the returned startTime is not before that midnight, the message  *)
(* count and the token totals are those of the deduplicated messages at or  *)
(* after that midnight inside the returned window, a batch with only        *)
(* earlier messages gives no active session, and (same-id messages being    *)
(* identical copies) removing the earlier messages from the batch leaves    *)
(* the result unchanged.                                                    *)

BeforeToday(msg) == msg.timestamp < StartOfDay(now)

SumOf(msgs, Field(_)) ==
    LET S[i \in 0..Len(msgs)] ==
            IF i = 0 THEN 0
            ELSE S[i - 1] + (IF msgs[i].usage.defined THEN Field(msgs[i].usage) ELSE 0)
    IN  S[Len(msgs)]

InputOf(u) == u.input_tokens
OutputOf(u) == u.output_tokens
CacheCreationOf(u) == u.cache_creation_input_tokens
CacheReadOf(u) == u.cache_read_input_tokens

\* The deduplicated messages of today that lie in the returned window.
TodayInWindow ==
    SelectSeq(UniqueMessages(messages),
              LAMBDA m : /\ ~BeforeToday(m)
                         /\ result.startTime <= m.timestamp
                         /\ m.timestamp <= result.sessionEndTime)

C6_EarlierDaysExcluded ==
    Done =>
        /\ result # Null =>
              /\ result.startTime >= StartOfDay(now)
              /\ result.messages = Len(TodayInWindow)
              /\ result.inputTokens = SumOf(TodayInWindow, InputOf)
              /\ result.outputTokens = SumOf(TodayInWindow, OutputOf)
              /\ result.cacheCreationTokens = SumOf(TodayInWindow, CacheCreationOf)
              /\ result.cacheReadTokens = SumOf(TodayInWindow, CacheReadOf)
        /\ (\A i \in 1..Len(messages) : BeforeToday(messages[i])) => result = Null
        /\ CopiesIdentical(messages) =>
              result = calculateSessionMetrics(
                           SelectSeq(messages, LAMBDA m : ~BeforeToday(m)),
                           now, "combined")

C6_Witness ==
    /\ HasMetrics
    /\ \E i \in 1..Len(messages) :
          /\ BeforeToday(messages[i])
          /\ messages[i].usage.input_tokens > 0
          /\ \A j \in 1..Len(messages) : j # i => messages[j].id # messages[i].id
          /\ now <= messages[i].timestamp + SESSION_DURATION_MS

----------------------------------------------------------------------------
(* C8: for a batch of one message with timestamp T, every clock reading   *)
(* with T <= now <= T + 5h gives a one-message session with startTime = T   *)
(* and sessionEndTime = T + 5h; at now = T it is active with 5h remaining.  *)
(* The code drops the message, and returns null, once now has passed the    *)
(* local midnight after T, although T + 5h is not reached yet.              *)

SingleMessageCase ==
    /\ Done
    /\ Len(messages) = 1
    /\ messages[1].timestamp <= now
    /\ now <= messages[1].timestamp + SESSION_DURATION_MS

IsSingleSession ==
    /\ result # Null
    /\ result.messages = 1
    /\ result.startTime = messages[1].timestamp
    /\ result.sessionEndTime = messages[1].timestamp + SESSION_DURATION_MS
    /\ now = messages[1].timestamp =>
          result.isActive /\ result.timeRemaining = SESSION_DURATION_MS

C8_SingleMessageEveryNow == SingleMessageCase => IsSingleSession

\* What the code does in this case: the session is returned as long as now
\* is on T's calendar day, and null after the midnight in between.
SingleMessageUntilMidnight ==
    SingleMessageCase =>
        IF StartOfDay(now) <= messages[1].timestamp
        THEN IsSingleSession
        ELSE result = Null

----------------------------------------------------------------------------
(* C9: when two consecutive messages of today are more than 5 hours apart   *)
(* and now lies in the set the later one starts, the metrics start at the   *)
(* later message and are those computed from that message and its          *)
(* successors alone: no message of an earlier set contributes to a total,   *)
(* to the message count or to burnRate.                                     *)

GapBefore(i) ==
    /\ todayMessages[i].timestamp - todayMessages[i - 1].timestamp > SESSION_DURATION_MS
    /\ todayMessages[i].timestamp <= now
    /\ now <= todayMessages[i].timestamp + SESSION_DURATION_MS

C9_ClosedSetsExcluded ==
    Done =>
        \A i \in 2..Len(todayMessages) :
            GapBefore(i) =>
                /\ result # Null
                /\ result.startTime = todayMessages[i].timestamp
                /\ result = calculateSessionMetrics(
                       SubSeq(todayMessages, i, Len(todayMessages)), now, "combined")

C9_Witness ==
    /\ Done
    /\ \E i \in 2..Len(todayMessages) :
          /\ GapBefore(i)
          /\ todayMessages[i - 1].usage.input_tokens > 0
          /\ now - todayMessages[i - 1].timestamp > SESSION_DURATION_MS

----------------------------------------------------------------------------
(* C10: in every metrics value returned, isActive is true exactly when      *)
(* startTime <= now <= sessionEndTime, so also at now = sessionEndTime.     *)
(* The code sets isActive = timeRemaining > 0, false at now = sessionEndTime*)

C10_IsActiveIffInWindow ==
    HasMetrics =>
        (result.isActive <=>
            (result.startTime <= now /\ now <= result.sessionEndTime))

----------------------------------------------------------------------------
(* C11: in every metrics value returned, timeRemaining equals               *)
(* max(0, sessionEndTime - now) and lies between 0 and 5 hours, both        *)
(* included.                                                                *)

C11_TimeRemaining ==
    HasMetrics =>
        /\ result.timeRemaining =
              (IF result.sessionEndTime - now > 0
               THEN result.sessionEndTime - now ELSE 0)
        /\ 0 <= result.timeRemaining
        /\ result.timeRemaining <= SESSION_DURATION_MS

C11_Witness ==
    /\ HasMetrics
    /\ 0 < result.timeRemaining
    /\ result.timeRemaining < SESSION_DURATION_MS

----------------------------------------------------------------------------
(* C12: deduplication by id returns exactly one message per distinct id of  *)
(* the batch, in the order in which the ids first occur in the batch, and   *)
(* the message kept for an id is its last occurrence in the batch.          *)

FirstIndex(msgs, id) ==
    CHOOSE i \in 1..Len(msgs) :
        msgs[i].id = id /\ \A j \in 1..(i - 1) : msgs[j].id # id

LastIndex(msgs, id) ==
    CHOOSE i \in 1..Len(msgs) :
        msgs[i].id = id /\ \A j \in (i + 1)..Len(msgs) : msgs[j].id # id

C12_OnePerIdFirstOrderLastContent ==
    Done =>
        LET u == UniqueMessages(messages) IN
        /\ {u[k].id : k \in 1..Len(u)} = {messages[i].id : i \in 1..Len(messages)}
        /\ \A k, l \in 1..Len(u) : k # l => u[k].id # u[l].id
        /\ \A k, l \in 1..Len(u) :
              k < l => FirstIndex(messages, u[k].id) < FirstIndex(messages, u[l].id)
        /\ \A k \in 1..Len(u) : u[k] = messages[LastIndex(messages, u[k].id)]

C12_Witness ==
    /\ Done
    /\ Len(messages) = 3
    /\ messages[1].id = messages[3].id
    /\ messages[1] # messages[3]
    /\ messages[2].id # messages[1].id
    /\ UniqueMessages(messages) = <<messages[3], messages[2]>>

----------------------------------------------------------------------------
(* C13: deduplication is idempotent: applied to its own output it returns   *)
(* that output unchanged, and the empty batch gives the empty batch.        *)

C13_DedupeIdempotent ==
    /\ UniqueMessages(UniqueMessages(messages)) = UniqueMessages(messages)
    /\ messages = <<>> => UniqueMessages(messages) = <<>>

C13_Witness ==
    /\ Done
    /\ Len(UniqueMessages(messages)) = 2
    /\ Len(messages) = 3
    /\ UniqueMessages(messages) # SubSeq(messages, 1, 2)

----------------------------------------------------------------------------
(* C14: burnRate is the sum of the quota-relevant tokens (input + output)   *)
(* of the active set's messages with timestamp >= now - 10 minutes, divided *)
(* by the minutes from the earliest of them to now.                         *)
(* The code divides by the elapsed minutes, but sums the cache tokens too.  *)

ActiveSet == sets[LastOf(Containing)]

Recent == SelectSeq(ActiveSet.messages,
                    LAMBDA m : m.timestamp >= now - BURN_RATE_WINDOW_MS)

QuotaOf(u) == u.input_tokens + u.output_tokens

C14_BurnRateOfQuotaTokens ==
    (HasMetrics /\ Len(Recent) > 0 /\ Recent[1].timestamp < now) =>
        result.burnRate =
            Quotient(SumOf(Recent, QuotaOf) * MS_PER_MINUTE, now - Recent[1].timestamp)

----------------------------------------------------------------------------
(* C15: burnRate is 0 when no message of the active set has                 *)
(* timestamp >= now - 10 minutes and 0 when the earliest such message has   *)
(* timestamp = now; it is never negative and never a division by zero.      *)

C15_BurnRateZeroCases ==
    HasMetrics =>
        /\ Len(Recent) = 0 => result.burnRate = Zero
        /\ (Len(Recent) > 0 /\ Recent[1].timestamp = now) => result.burnRate = Zero
        /\ result.burnRate.num >= 0
        /\ result.burnRate.den > 0

C15_Witness ==
    /\ HasMetrics
    /\ Len(Recent) > 0
    /\ Recent[1].timestamp = now
    /\ Recent[1].usage.input_tokens > 0
    /\ result.burnRate = Zero

----------------------------------------------------------------------------
(* C17: in every metrics value returned, inputTokens, outputTokens,         *)
(* cacheCreationTokens and cacheReadTokens are the sums of the usage field  *)
(* of the same name over the messages of the active set, and the message    *)
(* count is the number of messages of the active set, those without usage   *)
(* included.                                                                *)

C17_SubtotalsAndCount ==
    HasMetrics =>
        /\ result.inputTokens = SumOf(ActiveSet.messages, InputOf)
        /\ result.outputTokens = SumOf(ActiveSet.messages, OutputOf)
        /\ result.cacheCreationTokens = SumOf(ActiveSet.messages, CacheCreationOf)
        /\ result.cacheReadTokens = SumOf(ActiveSet.messages, CacheReadOf)
        /\ result.messages = Len(ActiveSet.messages)

C17_Witness ==
    /\ HasMetrics
    /\ result.messages = 3
    /\ \E i \in 1..3 : ~ActiveSet.messages[i].usage.defined
    /\ result.cacheReadTokens = 40
    /\ result.inputTokens = 11

----------------------------------------------------------------------------
(* C20: no message later than now is folded into a set: the day filter      *)
(* keeps only the messages with midnight <= timestamp <= now, and the       *)
(* returned lastMessageTime is never later than now.                        *)
(* The code's filter has no upper end, so this does not hold.               *)

C20_NothingAfterNow ==
    Done =>
        /\ \A i \in 1..Len(todayMessages) : todayMessages[i].timestamp <= now
        /\ result # Null => result.lastMessageTime <= now

----------------------------------------------------------------------------
(* C16: estimateTimeToLimit returns undefined exactly when burnRate <= 0 or *)
(* currentTokens >= tokenLimit (so also at currentTokens = tokenLimit);     *)
(* otherwise it returns the strictly positive duration                      *)
(* (tokenLimit - currentTokens) / burnRate minutes, in milliseconds.        *)

Estimated == timeToLimit # NotEstimated

\* timeToLimit in minutes
MinutesToLimit == Quotient(timeToLimit.num, timeToLimit.den * MS_PER_MINUTE)

C16_EstimateTimeToLimit ==
    Estimated =>
        LET noProjection ==
                \/ limitArgs.burnRate.num <= 0
                \/ limitArgs.currentTokens >= limitArgs.tokenLimit
        IN  /\ (timeToLimit = Undefined) <=> noProjection
            /\ ~noProjection =>
                  /\ timeToLimit.num > 0
                  /\ timeToLimit.den > 0
                  \* minutes * burnRate = tokenLimit - currentTokens
                  /\ MinutesToLimit.num * limitArgs.burnRate.num =
                        (limitArgs.tokenLimit - limitArgs.currentTokens)
                            * limitArgs.burnRate.den * MinutesToLimit.den

C16_Witness ==
    /\ Estimated
    /\ limitArgs.currentTokens = limitArgs.tokenLimit
    /\ limitArgs.burnRate.num > 0
    /\ timeToLimit = Undefined

----------------------------------------------------------------------------
(* C18: parseSessionFile maps lines to messages independently of one       *)
(* another: a line that is not valid JSON, a summary record and a record   *)
(* without a nested message each produce no message and never end the      *)
(* parse, and the messages of the remaining lines are the same, in the     *)
(* same order, as if the skipped lines were absent.                        *)

Parsed == pc # "write"

\* The lines the stream delivered.
Delivered == SubSeq(lines, 1, linesRead)

IsMessageLine(line) ==
    /\ line.kind = "json"
    /\ Has(line.value, "message")
    /\ ~(Has(line.value, "type") /\ line.value.type = "summary")

MessageLines == SelectSeq(Delivered, IsMessageLine)

C18_LinesIndependent ==
    Parsed =>
        /\ Len(messages) = Len(MessageLines)
        /\ messages = parseSessionFile(MessageLines, clock)
        /\ \A i \in 1..Len(messages) : <<messages[i]>> = parseLine(MessageLines[i], clock)

C18_Witness ==
    /\ Parsed
    /\ linesRead = 2
    /\ lines[1] = Garbage
    /\ IsMessageLine(lines[2])
    /\ Len(messages) = 1

----------------------------------------------------------------------------
(* C19: deduplication never discards a distinct message for lacking an id: *)
(* two different records that carry neither message.id nor uuid are both   *)
(* retained after deduplication and both contribute their tokens and       *)
(* count to the metrics.                                                   *)

LacksId(line) ==
    /\ IsMessageLine(line)
    /\ ~Has(line.value.message, "id")
    /\ ~Has(line.value, "uuid")

TwoDistinctWithoutId ==
    /\ Parsed
    /\ linesRead = 2
    /\ LacksId(lines[1])
    /\ LacksId(lines[2])
    /\ lines[1] # lines[2]

C19_NoIdMessagesRetained ==
    TwoDistinctWithoutId =>
        /\ Len(UniqueMessages(messages)) = 2
        /\ Done =>
              /\ result # Null
              /\ result.messages = 2
              /\ result.totalTokens =
                    SumOf(messages, InputOf) + SumOf(messages, OutputOf)
                        + SumOf(messages, CacheCreationOf) + SumOf(messages, CacheReadOf)

----------------------------------------------------------------------------
(* C21: a message without a usage payload adds zero to every token total   *)
(* but takes part in windowing: it can fix a set's startTime and endTime,  *)
(* it is counted in the message count, and a set of only such messages     *)
(* with now inside it yields metrics with all totals 0, not null; a usage  *)
(* payload with missing sub-counts has 0 for each missing sub-count.       *)

UsageFields ==
    {"input_tokens", "cache_creation_input_tokens", "cache_read_input_tokens",
     "output_tokens"}

\* The usage of a parsed message is the raw payload with 0 for what is missing.
UsageDefaults(raw, m) ==
    /\ m.usage.defined <=> Has(raw, "usage")
    /\ Has(raw, "usage") =>
          \A f \in UsageFields :
              m.usage[f] = IF Has(raw.usage, f) THEN raw.usage[f] ELSE 0

NoneHasUsage(msgs) == \A i \in 1..Len(msgs) : ~msgs[i].usage.defined

\* The earliest timestamp among msgs.
Earliest(msgs) ==
    CHOOSE t \in {msgs[i].timestamp : i \in 1..Len(msgs)} :
        \A i \in 1..Len(msgs) : t <= msgs[i].timestamp

C21_NoUsageStillWindows ==
    /\ Parsed =>
          /\ Len(messages) = Len(MessageLines)
          /\ \A i \in 1..Len(messages) :
                UsageDefaults(MessageLines[i].value.message, messages[i])
    /\ (Done /\ messages # <<>>) =>
          \* every message of the file is of today and in one window with now
          /\ result # Null
          /\ result.startTime = Earliest(UniqueMessages(messages))
          /\ result.sessionEndTime =
                Earliest(UniqueMessages(messages)) + SESSION_DURATION_MS
          /\ result.messages = Len(UniqueMessages(messages))
          /\ result.inputTokens = SumOf(UniqueMessages(messages), InputOf)
          /\ result.outputTokens = SumOf(UniqueMessages(messages), OutputOf)
          /\ NoneHasUsage(messages) =>
                /\ result.totalTokens = 0
                /\ result.inputTokens = 0
                /\ result.outputTokens = 0
                /\ result.cacheCreationTokens = 0
                /\ result.cacheReadTokens = 0

\* A message without usage opens the window of a later message with a
\* partial usage payload.
C21_Witness ==
    /\ Done
    /\ Len(messages) = 2
    /\ ~messages[1].usage.defined
    /\ messages[1].timestamp < messages[2].timestamp
    /\ messages[1].id # messages[2].id
    /\ messages[2].usage.defined
    /\ ~Has(MessageLines[2].value.message.usage, "input_tokens")
    /\ result # Null
    /\ result.startTime = messages[1].timestamp
    /\ result.messages = 2
    /\ result.totalTokens = 2

----------------------------------------------------------------------------
(* C22: the id of a parsed message is the nested message's own id when     *)
(* present (a non-empty string), otherwise the record's uuid; two records  *)
(* with different message ids never get the same id, and two records with  *)
(* the same message id always get the same id whatever their uuid.         *)

HasId(msg) == Has(msg, "id") /\ msg.id # ""

C22_IdRule ==
    Parsed =>
        /\ Len(messages) = Len(MessageLines)
        /\ \A i \in 1..Len(messages) :
              LET parsed == MessageLines[i].value IN
              /\ HasId(parsed.message) => messages[i].id = parsed.message.id
              /\ (~HasId(parsed.message) /\ Has(parsed, "uuid")) =>
                    messages[i].id = parsed.uuid
        /\ \A i, j \in 1..Len(messages) :
              LET mi == MessageLines[i].value.message
                  mj == MessageLines[j].value.message
              IN  (HasId(mi) /\ HasId(mj)) =>
                      (mi.id = mj.id <=> messages[i].id = messages[j].id)

C22_Witness ==
    /\ Parsed
    /\ Len(messages) = 2
    /\ Len(MessageLines) = 2
    /\ \A i \in 1..2 : HasId(MessageLines[i].value.message)
    /\ \A i \in 1..2 : Has(MessageLines[i].value, "uuid")
    /\ MessageLines[1].value.message.id = "a"
    /\ MessageLines[2].value.message.id = "a"
    /\ MessageLines[1].value.uuid = "u"
    /\ MessageLines[2].value.uuid = "v"
    /\ messages[1].id = "a"
    /\ messages[2].id = "a"

----------------------------------------------------------------------------
(* C23: in every set produced by groupIntoFiveHourSets from sorted input,  *)
(* endTime = startTime + 5h, startTime is the timestamp of the set's first *)
(* message, every member has startTime <= timestamp <= endTime, and        *)
(* lastMessageTime is the largest member timestamp, which is the timestamp *)
(* of the last message appended, so startTime <= lastMessageTime <= endTime.*)

C23_SetShape ==
    Done =>
        \A k \in 1..Len(sets) :
            LET set == sets[k]
                n == Len(set.messages)
            IN  /\ n >= 1
                /\ set.endTime = set.startTime + SESSION_DURATION_MS
                /\ set.startTime = set.messages[1].timestamp
                /\ \A i \in 1..n :
                      /\ set.startTime <= set.messages[i].timestamp
                      /\ set.messages[i].timestamp <= set.endTime
                      /\ set.messages[i].timestamp <= set.lastMessageTime
                /\ set.lastMessageTime = set.messages[n].timestamp
                /\ set.startTime <= set.lastMessageTime
                /\ set.lastMessageTime <= set.endTime

\* A set whose last message lies exactly on its endTime.
C23_Witness ==
    /\ Done
    /\ Len(sets) = 2
    /\ Len(sets[1].messages) = 2
    /\ sets[1].lastMessageTime = sets[1].endTime
    /\ sets[1].startTime < sets[1].lastMessageTime

----------------------------------------------------------------------------
(* C24: for every batch and every now, at most one set produced from the   *)
(* sorted messages of today contains now in [startTime, endTime], so the   *)
(* list of active sets never has more than one element.                    *)

C24_AtMostOneActiveSet ==
    Done =>
        /\ Cardinality(Containing) <= 1
        /\ Len(ActiveSets(sets, now)) <= 1
        /\ \A k, l \in 1..Len(sets) : k < l => sets[k].endTime < sets[l].startTime

\* now lies in the first of two sets.
C24_Witness ==
    /\ Done
    /\ Len(sets) = 2
    /\ Containing = {1}
    /\ result # Null

----------------------------------------------------------------------------
(* C25: the result of calculateSessionMetrics does not depend on the order *)
(* of the batch: when same-id messages are identical copies, every         *)
(* permutation of the batch gives the same metrics at the same now.        *)
(* Every permutation is a sequence of exchanges of neighbours, and the     *)
(* property is checked for the exchanges of every batch.                   *)

\* msgs with the messages at positions i and i + 1 exchanged
Exchange(msgs, i) ==
    [k \in 1..Len(msgs) |->
        IF k = i THEN msgs[i + 1] ELSE IF k = i + 1 THEN msgs[i] ELSE msgs[k]]

C25_OrderIndependent ==
    (Done /\ CopiesIdentical(messages)) =>
        \A i \in 1..(Len(messages) - 1) :
            calculateSessionMetrics(Exchange(messages, i), now, "combined") = result

\* An unsorted batch with two different messages at the same time.
C25_Witness ==
    /\ Done
    /\ CopiesIdentical(messages)
    /\ Len(messages) = 3
    /\ messages[1].timestamp > messages[2].timestamp
    /\ messages[2].timestamp = messages[3].timestamp
    /\ messages[2].id # messages[3].id
    /\ messages[2].usage # messages[3].usage
    /\ result # Null
    /\ result.messages = 3

----------------------------------------------------------------------------
(* C26: after every polling cycle that completes, currentSession is the    *)
(* metrics returned by calculateSessionMetrics when they exist and are     *)
(* active, and null otherwise (no messages, no active set, or metrics not  *)
(* active), and the status bar shows that same value, "No Session" for     *)
(* null; so a session shown earlier is cleared by the first completed      *)
(* cycle after it expires.                                                 *)

\* The status bar leaves "Initializing..." when the first cycle completes.
CycleCompleted == statusBar # Initializing

C26_SessionAfterCycle ==
    CycleCompleted =>
        /\ currentSession =
              IF messages = <<>> THEN Null
              ELSE LET metrics == calculateSessionMetrics(messages, now, "combined")
                   IN  IF metrics # Null /\ metrics.isActive THEN metrics ELSE Null
        /\ statusBar = StatusBarOf(currentSession, planConfig)
        /\ currentSession = Null <=> statusBar.text = [label |-> "No Session"]
        /\ currentSession # Null =>
              /\ currentSession.startTime <= now
              /\ now < currentSession.sessionEndTime

\* The metrics exist but are not active, and the session is cleared.
C26_Witness ==
    /\ CycleCompleted
    /\ messages # <<>>
    /\ result # Null
    /\ ~result.isActive
    /\ currentSession = Null
    /\ statusBar = NoSessionBar

----------------------------------------------------------------------------
(* C27: a failure to parse one session file inside a polling cycle skips   *)
(* only that file, and the cycle still computes the metrics from the other *)
(* files; a failure while listing a directory aborts the cycle and leaves  *)
(* currentSession and the status bar as the previous cycle left them.      *)

LastFile == files[FileOrder[Len(FileOrder)]]

C27_FailuresContained ==
    [][/\ lastOutcome' = "aborted" =>
             (currentSession' = currentSession /\ statusBar' = statusBar)
       /\ \A c \in BagToSet(cycles) :
             (/\ c.next = Len(FileOrder)
              /\ cycles' = cycles (-) SetToBag({c})
              /\ lastOutcome' = "completed") =>
                 /\ \E n \in 0..Len(LastFile) :
                       messages' = c.batch \o SubSeq(LastFile, 1, n)
                 /\ messages' # <<>> =>
                       currentSession' =
                           SessionOf(calculateSessionMetrics(messages', clock, "combined"))
                 /\ statusBar' = StatusBarOf(currentSession', planConfig)]_vars

\* The last file held a message before the cycle ended, its read failed,
\* and the session comes from the first file.
C27_Witness ==
    /\ lastOutcome = "completed"
    /\ files["f1"] # <<>>
    /\ files["f2"] # <<>>
    /\ files["f2"][1].timestamp < now
    /\ messages = files["f1"]
    /\ currentSession # Null
    /\ currentSession.messages = 1

----------------------------------------------------------------------------
(* C28: when polling cycles overlap, each cycle reads the clock and writes *)
(* currentSession in one uninterrupted step, so currentSession is never    *)
(* overwritten by a result computed at an earlier now than the result it   *)
(* holds, and after all cycles it holds the result of the latest now.      *)

C28_NeverOlderResult ==
    [][/\ now' >= now
       /\ now' # now =>
             /\ now' = clock
             /\ currentSession' =
                   SessionOf(calculateSessionMetrics(messages', now', "combined"))]_vars

\* Two calls of updateMetrics are in flight after one has completed.
C28_Witness ==
    /\ BagCardinality(cycles) = 2
    /\ \E c \in BagToSet(cycles) : c.next = Len(FileOrder) /\ c.batch # <<>>
    /\ currentSession # Null
    /\ now = clock

----------------------------------------------------------------------------
(* C29: after any sequence of plan-selection commands, planConfig has plan *)
(* and tokenLimit changed together, tokenLimit being the selected plan's   *)
(* limit (pro 44000, max5 88000, max20 220000, custom: the positive        *)
(* integer entered); a cancelled or empty custom input leaves planConfig   *)
(* unchanged; tokenLimit is always greater than 0.                         *)

PlanPairs(config) ==
    /\ config.tokenLimit > 0
    /\ config.plan \in {"pro", "max5", "max20", "custom"}
    /\ config.plan = "pro" => config.tokenLimit = 44000
    /\ config.plan = "max5" => config.tokenLimit = 88000
    /\ config.plan = "max20" => config.tokenLimit = 220000

\* The input box returned undefined or the empty string.
NothingEntered(input) == input = Cancelled \/ input = [value |-> <<>>]

C29_PlanAndLimitTogether ==
    /\ [](PlanPairs(planConfig))
    /\ [][/\ planConfig' # planConfig =>
                /\ lastCommand'.command # "setPlanCustom" =>
                      \E plan \in {"pro", "max5", "max20"} :
                          /\ lastCommand'.command = PlanCommands[plan]
                          /\ planConfig'.plan = plan
                /\ lastCommand'.command = "setPlanCustom" =>
                      /\ planConfig'.plan = "custom"
                      /\ ~NothingEntered(lastCommand'.input)
                      /\ planConfig'.tokenLimit = parseInt(lastCommand'.input.value).value
          /\ (lastCommand'.command = "setPlanCustom" /\ NothingEntered(lastCommand'.input))
                => planConfig' = planConfig]_vars

\* A custom limit was entered after max20, and a later input box was
\* cancelled.
C29_Witness ==
    /\ planConfig = [plan |-> "custom", tokenLimit |-> 12]
    /\ workspaceState = [plan |-> "max20", tokenLimit |-> 220000]
    /\ lastCommand = [command |-> "setPlanCustom", input |-> Cancelled]

----------------------------------------------------------------------------
(* C30: across any sequence of show calls and panel-disposed events, at    *)
(* most one webview panel exists at a time: show creates a panel only when *)
(* none exists and otherwise reuses the existing one, after a dispose      *)
(* event the next show creates a fresh panel, and after every show the     *)
(* panel's content is the rendering of the session passed to that show.    *)

Existing == {i \in 1..Len(webviews) : ~webviews[i].disposed}

C30_OnePanel ==
    /\ [](/\ Cardinality(Existing) <= 1
          /\ Existing = IF panel = NoPanel THEN {} ELSE {panel}
          /\ (lastCommand.command = "showPopup" /\ panel # NoPanel) =>
                webviews[panel].html =
                    getHtmlContent(lastCommand.input.session, lastCommand.input.config))
    /\ [][/\ Len(webviews') > Len(webviews) =>
                /\ Existing = {}
                /\ Len(webviews') = Len(webviews) + 1
                /\ panel' = Len(webviews')
          /\ (lastCommand' # lastCommand /\ lastCommand'.command = "showPopup") =>
                /\ panel' # NoPanel
                /\ panel # NoPanel => (panel' = panel /\ Len(webviews') = Len(webviews))]_vars

\* A second panel, created by the show after the first one was closed,
\* shows a session.
C30_Witness ==
    /\ Len(webviews) = 2
    /\ webviews[1].disposed
    /\ panel = 2
    /\ currentSession # Null
    /\ webviews[2].html = getHtmlContent(currentSession, planConfig)
    /\ webviews[2].html # webviews[1].html

====
